---- MODULE Spec2Model ----
(***************************************************************************)
(* DrissionPageBase (src/crawl/drission_page_base.py): a facade over a     *)
(* browser driver.  The model records, for the method invoked last, the    *)
(* calls the method issued to its collaborators (the option builder `co`,  *)
(* the page, a tab, an element) in the order it issued them, and the       *)
(* exception that left the method, if any.                                 *)
(*                                                                         *)
(* Numbers that Python holds as floats are kept exact as scaled integers:  *)
(* durations in milliseconds (0.1 s = 100), tap coordinates in half        *)
(* pixels (x + width/2 is kept as 2*x + width), the device scale factor    *)
(* in thousandths (2.625 = 2625).                                          *)
(*                                                                         *)
(* The option builder and the user-agent rotator work in memory and are    *)
(* taken to return; every call on the driver (WebPage construction, page,  *)
(* tab and element calls) may raise.                                       *)
(***************************************************************************)
EXTENDS Integers, Sequences, FiniteSets, TLC

VARIABLES
    phase,      \* "new", "open" (constructed), "failed" (__init__ raised), "closed" (quit)
    page,       \* self.page: the driver handle the session owns, NoPage before it is set
    lastOp,     \* the method invoked last
    lastArgs,   \* its arguments and the values the environment returned to it
    calls,      \* the collaborator calls it issued, in order
    err,        \* the exception that left it, NoError when it returned
    browser     \* the driver-side state: emulation overrides, scroll position, page length

vars == <<phase, page, lastOp, lastArgs, calls, err, browser>>

----------------------------------------------------------------------------
(* Bounds of the model.                                                    *)

\* how many magnitudes random.randint(500, 1000) is sampled at, evenly spaced
ScrollSamples == 2

----------------------------------------------------------------------------
(* Values.                                                                 *)

NoPage == 0
NoError == "none"
DriverErrors == {"TimeoutError", "CDPError"}

Call(obj, op, arg) == [obj |-> obj, op |-> op, arg |-> arg, raised |-> NoError]

Min(a, b) == IF a <= b THEN a ELSE b

\* str(int), as the f-strings format it
Digit(d) ==
    CASE d = 0 -> "0" [] d = 1 -> "1" [] d = 2 -> "2" [] d = 3 -> "3" [] d = 4 -> "4"
      [] d = 5 -> "5" [] d = 6 -> "6" [] d = 7 -> "7" [] d = 8 -> "8" [] d = 9 -> "9"

RECURSIVE NatStr(_)
NatStr(n) == IF n < 10 THEN Digit(n) ELSE NatStr(n \div 10) \o Digit(n % 10)

IntStr(n) == IF n < 0 THEN "-" \o NatStr(-n) ELSE NatStr(n)

----------------------------------------------------------------------------
(* Arguments the caller and the environment may supply.                    *)

WindowSizes == {"full", "1920x1080", "FULL"}
DriverNames == {"chrome", "brave", "opera", "edge", "firefox", "Chrome"}
DebugPorts == {-1, 0, -2, 9222}
ImplicitWaits == {10}
\* what UserAgent(...).get_random_user_agent() may return
UserAgentPool == {"Mozilla/5.0 (Windows NT 10.0; Win64; x64) Chrome/120.0.0.0",
                  "Mozilla/5.0 (X11; Linux x86_64) Chrome/119.0.0.0"}

InitArgs ==
    [window_size : WindowSizes, is_headless : BOOLEAN, is_incognito : BOOLEAN,
     is_user_agent : BOOLEAN, time_implicitly_wait : ImplicitWaits,
     driver_name : DriverNames, debug_port : DebugPorts]

\* emulation state of the browser the driver attaches to
NoMetrics ==
    [width |-> 0, height |-> 0, deviceScaleFactorMilli |-> 0, mobile |-> FALSE,
     screenOrientation |-> [angle |-> 0, type |-> "none"]]
DesktopMetrics ==
    [width |-> 1920, height |-> 1080, deviceScaleFactorMilli |-> 1000, mobile |-> FALSE,
     screenOrientation |-> [angle |-> 90, type |-> "landscapePrimary"]]
PriorMetrics == {NoMetrics, DesktopMetrics}
NoUserAgent == [userAgent |-> "", platform |-> ""]
PriorUserAgents == {NoUserAgent}
PageLengths == {0, 3000}

----------------------------------------------------------------------------
(* __init__: the launch options.                                           *)

set_argument(arg) == Call("co", "set_argument", [arg |-> arg, value |-> <<>>])
set_argument_value(arg, value) == Call("co", "set_argument", [arg |-> arg, value |-> <<value>>])

HeadlessArgs(is_headless) ==
    IF is_headless THEN <<set_argument("--headless"), set_argument("--no-sandbox")>> ELSE <<>>

IncognitoArgs(is_incognito) ==
    IF is_incognito THEN <<set_argument("--incognito")>> ELSE <<>>

UserAgentArgs(is_user_agent, user_agent) ==
    IF is_user_agent
    THEN <<Call("co", "set_user_agent", [user_agent |-> user_agent])>>
    ELSE <<>>

FixedArgs == <<set_argument("--disable-dev-shm-usage"), set_argument("--disable-gpu")>>

WindowArgsBoth(window_size) ==
    IF window_size = "full"
    THEN <<set_argument("--start-maximized")>>
    ELSE <<set_argument("--start-maximized"), set_argument_value("--window-size", window_size)>>

WindowArgs(window_size) ==
    IF window_size = "full"
    THEN <<set_argument("--start-maximized")>>
    ELSE <<set_argument_value("--window-size", window_size)>>

AddressArgsPositiveOnly(debug_port) ==
    IF debug_port > 0
    THEN <<Call("co", "set_address", [address |-> "127.0.0.1:" \o IntStr(debug_port)])>>
    ELSE <<>>

AddressArgs(debug_port) ==
    IF debug_port # -1
    THEN <<Call("co", "set_address", [address |-> "127.0.0.1:" \o IntStr(debug_port)])>>
    ELSE <<>>

Unsupported == "<unsupported>"

BrowserPathDefaultChrome(driver_name) ==
    CASE driver_name = "chrome" -> "usr/bin/google-chrome"
      [] driver_name = "brave" -> "usr/bin/brave-browser"
      [] driver_name = "opera" -> "usr/bin/opera"
      [] driver_name = "edge" -> "usr/bin/microsoft-edge-dev"
      [] OTHER -> "usr/bin/google-chrome"

BrowserPath(driver_name) ==
    CASE driver_name = "chrome" -> "usr/bin/google-chrome"
      [] driver_name = "brave" -> "usr/bin/brave-browser"
      [] driver_name = "opera" -> "usr/bin/opera"
      [] driver_name = "edge" -> "usr/bin/microsoft-edge-dev"
      [] OTHER -> Unsupported

UnsupportedError(driver_name) == "Exception: Unsupported driver name: " \o driver_name

\* the calls on co down to the window and address options (lines 21-43)
LaunchOptions(a, user_agent) ==
    HeadlessArgs(a.is_headless) \o IncognitoArgs(a.is_incognito)
        \o UserAgentArgs(a.is_user_agent, user_agent) \o FixedArgs
        \o WindowArgs(a.window_size) \o AddressArgs(a.debug_port)

WebPageCall(co, timeout, e) ==
    [Call("WebPage", "__init__", [chromium_options |-> co, timeout |-> timeout])
        EXCEPT !.raised = e]

\* __init__ with the driver constructed before the variant is looked at
InitDriverFirst(a, user_agent, e) ==
    LET options == LaunchOptions(a, user_agent)
        made == <<WebPageCall(options, a.time_implicitly_wait, e)>>
    IN  IF BrowserPath(a.driver_name) = Unsupported
        THEN [calls |-> options \o made,
              err |-> IF e = NoError THEN UnsupportedError(a.driver_name) ELSE e,
              page |-> IF e = NoError THEN 1 ELSE NoPage]
        ELSE [calls |-> options \o made, err |-> e,
              page |-> IF e = NoError THEN 1 ELSE NoPage]

\* the whole of __init__: what it called, what it raised, what self.page holds.
\* e is what WebPage(...) raises when it is reached (NoError: it returns a handle).
InitResult(a, user_agent, e) ==
    LET options == LaunchOptions(a, user_agent)
        path == BrowserPath(a.driver_name)
    IN  IF path = Unsupported
        THEN [calls |-> options, err |-> UnsupportedError(a.driver_name), page |-> NoPage]
        ELSE LET co == options \o <<Call("co", "set_browser_path", [path |-> path])>>
             IN  [calls |-> co \o <<WebPageCall(co, a.time_implicitly_wait, e)>>,
                  err |-> e,
                  page |-> IF e = NoError THEN 1 ELSE NoPage]

Init ==
    /\ phase = "new"
    /\ page = NoPage
    /\ lastOp = "none"
    /\ lastArgs = [none |-> TRUE]
    /\ calls = <<>>
    /\ err = NoError
    /\ browser = [metrics |-> NoMetrics, ua |-> NoUserAgent, scrollY |-> 0, pageLen |-> 0]

DrissionPageBase_init ==
    /\ phase = "new"
    /\ \E a \in InitArgs, user_agent \in UserAgentPool, e \in DriverErrors \cup {NoError},
          m \in PriorMetrics, u \in PriorUserAgents :
        LET r == InitResult(a, IF a.is_user_agent THEN user_agent ELSE "", e)
        IN  /\ lastOp' = "__init__"
            /\ lastArgs' = a
            /\ calls' = r.calls
            /\ err' = r.err
            /\ page' = r.page
            /\ phase' = IF r.err = NoError THEN "open" ELSE "failed"
            /\ browser' = IF r.err = NoError
                          THEN [metrics |-> m, ua |-> u, scrollY |-> 0, pageLen |-> 0]
                          ELSE browser

----------------------------------------------------------------------------
(* Exceptions: no method has a try block, so the first call that raises    *)
(* ends the method and the exception leaves it as it is.                   *)

\* the method goes on after the call that raised
RunOn(program, k, e) ==
    [i \in 1..Len(program) |-> [program[i] EXCEPT !.raised = IF i = k THEN e ELSE NoError]]

\* the calls issued when call k of the program raises e (k = 0: none raises)
Run(program, k, e) ==
    [i \in 1..(IF k = 0 THEN Len(program) ELSE k) |->
        [program[i] EXCEPT !.raised = IF i = k THEN e ELSE NoError]]

\* what the caller sees
Raised(k, e) == IF k = 0 THEN NoError ELSE e

----------------------------------------------------------------------------
(* The driver side: what a call that returned did to the browser.          *)

ScrollMin == 500
ScrollMax == 1000
DelayMinMs == 500
DelayMaxMs == 2000
ScrollSteps == 5
TapWaitMs == 100
DefaultSleepMs == 30000

\* c returned; len is the length of the page a navigation lands on
ApplyCall(b, c, len) ==
    CASE c.op = "run_cdp" /\ c.arg.cmd = "Emulation.setDeviceMetricsOverride" ->
            [b EXCEPT !.metrics = c.arg.params]
      [] c.op = "run_cdp" /\ c.arg.cmd = "Emulation.setUserAgentOverride" ->
            [b EXCEPT !.ua = c.arg.params]
      [] c.op = "scroll.down" ->
            [b EXCEPT !.scrollY = Min(b.scrollY + c.arg.pixel, b.pageLen)]
      [] c.op \in {"get", "back", "refresh"} ->
            [b EXCEPT !.scrollY = 0, !.pageLen = len]
      [] OTHER -> b

RECURSIVE Effects(_, _, _)
Effects(b, log, len) ==
    IF log = <<>> THEN b
    ELSE Effects(IF Head(log).raised = NoError THEN ApplyCall(b, Head(log), len) ELSE b,
                 Tail(log), len)

----------------------------------------------------------------------------
(* The methods: the calls each one issues when none raises.                *)

NoArgs == <<>>
Urls == {"https://example.org/"}
Retries == {3, 0}
Intervals == {3, 1}
Timeouts == {30, 5}
WindowWidths == {1280, 411}
WindowHeights == {720}
SleepsMs == {DefaultSleepMs, 250}
Modes == {"d", "s"}
Rects ==
    {[x |-> 10, y |-> 20, width |-> 100, height |-> 50],
     [x |-> -4, y |-> 7, width |-> 25, height |-> 31],
     [x |-> 0, y |-> 300, width |-> 0, height |-> 1]}
NoRect == [x |-> 0, y |-> 0, width |-> 0, height |-> 0]

ScrollAmounts ==
    {ScrollMin + (i * (ScrollMax - ScrollMin)) \div (ScrollSamples - 1) : i \in 0..(ScrollSamples - 1)}
\* the delays random.uniform(0.5, 2) is sampled at
DelaysMs == {DelayMinMs, DelayMaxMs}

open_url_calls(url, retry, interval, timeout) ==
    <<Call("page", "get", [url |-> url, retry |-> retry, interval |-> interval, timeout |-> timeout])>>

quit_calls == <<Call("page", "quit", NoArgs)>>

set_window_size_calls(width, height) ==
    <<Call("page", "set.window.size", [width |-> width, height |-> height])>>

set_window_position_calls(x, y) ==
    <<Call("page", "set.window.location", [x |-> x, y |-> y])>>

sleep_for_seconds_calls(ms) == <<Call("page", "wait", [second |-> ms])>>

open_new_tab_calls(url, quiet) ==
    <<Call("page", "new_tab", [url |-> url, background |-> quiet]),
      Call("page", "wait.new_tab", NoArgs)>>

RECURSIVE ScrollLoop(_, _, _)
ScrollLoop(n, scroll_amount, delay_amount) ==
    IF n = 0 THEN <<>>
    ELSE <<Call("page", "scroll.down", [pixel |-> scroll_amount]),
           Call("page", "wait", [second |-> delay_amount])>>
         \o ScrollLoop(n - 1, scroll_amount, delay_amount)

ScrollSetup ==
    <<Call("page", "set.scroll.smooth", [on_off |-> TRUE]),
      Call("page", "set.scroll.wait_complete", [on_off |-> TRUE])>>

\* one iteration short
slow_scroll_short(scroll_amount, delay_amount) ==
    ScrollSetup \o ScrollLoop(ScrollSteps - 1, scroll_amount, delay_amount)

slow_scroll_calls(scroll_amount, delay_amount) ==
    ScrollSetup \o ScrollLoop(ScrollSteps, scroll_amount, delay_amount)

go_back_calls == <<Call("page", "back", NoArgs)>>

reload_calls == <<Call("page", "refresh", NoArgs)>>

set_mode_calls(mode, go) == <<Call("page", "change_mode", [mode |-> mode, go |-> go])>>

mobile_emulation ==
    [width |-> 411, height |-> 731, deviceScaleFactorMilli |-> 2625, mobile |-> TRUE,
     screenOrientation |-> [angle |-> 0, type |-> "portraitPrimary"]]

ua ==
    [userAgent |-> "Mozilla/5.0 (Linux; Android 8.0.0; Pixel Build/OPR3.170623.007) AppleWebKit/537.36 (KHTML, like Gecko) Chrome/67.0.3396.68 Mobile Safari/537.36",
     platform |-> "Android"]

SetMetrics(params) ==
    Call("page", "run_cdp", [cmd |-> "Emulation.setDeviceMetricsOverride", params |-> params])
SetUserAgent(params) ==
    Call("page", "run_cdp", [cmd |-> "Emulation.setUserAgentOverride", params |-> params])

\* the user agent first
enable_mobile_mode_ua_first == <<SetUserAgent(ua), SetMetrics(mobile_emulation)>>

\* the mobile flag left off
enable_mobile_mode_not_mobile ==
    <<SetMetrics([mobile_emulation EXCEPT !.mobile = FALSE]), SetUserAgent(ua)>>

enable_mobile_mode_calls == <<SetMetrics(mobile_emulation), SetUserAgent(ua)>>

\* the centre with // in place of /
TapCenterFloor(bounding_rect) ==
    [x2 |-> 2 * (bounding_rect.x + bounding_rect.width \div 2),
     y2 |-> 2 * (bounding_rect.y + bounding_rect.height \div 2)]

\* center_x, center_y in half pixels
TapCenter(bounding_rect) ==
    [x2 |-> 2 * bounding_rect.x + bounding_rect.width,
     y2 |-> 2 * bounding_rect.y + bounding_rect.height]

TouchPoint(bounding_rect) ==
    [x2 |-> TapCenter(bounding_rect).x2, y2 |-> TapCenter(bounding_rect).y2,
     id |-> 0, radiusX |-> 1, radiusY |-> 1, force |-> 1]

TouchEvent(type, touch_point) ==
    Call("tab", "run_cdp",
         [cmd |-> "Input.dispatchTouchEvent",
          params |-> [type |-> type, touchPoints |-> <<touch_point>>]])

\* the finger lifted before the wait
touch_tap_end_early(bounding_rect) ==
    <<Call("element", "scroll.to_see", NoArgs),
      Call("element", "run_js", [script |-> "return this.getBoundingClientRect();"]),
      TouchEvent("touchStart", TouchPoint(bounding_rect)),
      TouchEvent("touchEnd", TouchPoint(bounding_rect))>>
    \o sleep_for_seconds_calls(TapWaitMs)

touch_tap_calls(bounding_rect) ==
    <<Call("element", "scroll.to_see", NoArgs),
      Call("element", "run_js", [script |-> "return this.getBoundingClientRect();"]),
      TouchEvent("touchStart", TouchPoint(bounding_rect))>>
    \o sleep_for_seconds_calls(TapWaitMs)
    \o <<TouchEvent("touchEnd", TouchPoint(bounding_rect))>>

----------------------------------------------------------------------------
(* The methods as actions.                                                 *)

\* method op, called with a, issues program; its call k raises e (k = 0: none)
Finish(op, a, program, k, e, len) ==
    /\ lastOp' = op
    /\ lastArgs' = a
    /\ calls' = Run(program, k, e)
    /\ err' = Raised(k, e)
    /\ browser' = Effects(browser, calls', len)
    /\ page' = page
    /\ phase' = IF op = "quit" /\ err' = NoError THEN "closed" ELSE phase

Invoke(op, a, program, len) ==
    /\ phase = "open"
    /\ \/ Finish(op, a, program, 0, NoError, len)
       \/ \E k \in 1..Len(program), e \in DriverErrors : Finish(op, a, program, k, e, len)

open_url ==
    \E url \in Urls, retry \in Retries, interval \in Intervals, timeout \in Timeouts,
       len \in PageLengths :
        Invoke("open_url",
               [url |-> url, retry |-> retry, interval |-> interval, timeout |-> timeout],
               open_url_calls(url, retry, interval, timeout), len)

quit == Invoke("quit", NoArgs, quit_calls, browser.pageLen)

set_window_size ==
    \E width \in WindowWidths, height \in WindowHeights :
        Invoke("set_window_size", [width |-> width, height |-> height],
               set_window_size_calls(width, height), browser.pageLen)

set_window_position ==
    \E x \in {0, 100}, y \in {0} :
        Invoke("set_window_position", [x |-> x, y |-> y],
               set_window_position_calls(x, y), browser.pageLen)

sleep_for_seconds ==
    \E ms \in SleepsMs :
        Invoke("sleep_for_seconds", [seconds |-> ms], sleep_for_seconds_calls(ms),
               browser.pageLen)

open_new_tab ==
    \E url \in Urls, quiet \in BOOLEAN :
        Invoke("open_new_tab", [url |-> url, quiet |-> quiet],
               open_new_tab_calls(url, quiet), browser.pageLen)

slow_scroll ==
    \E delay_amount \in DelaysMs, scroll_amount \in ScrollAmounts :
        Invoke("slow_scroll", [delay_amount |-> delay_amount, scroll_amount |-> scroll_amount],
               slow_scroll_calls(scroll_amount, delay_amount), browser.pageLen)

go_back == \E len \in PageLengths : Invoke("go_back", NoArgs, go_back_calls, len)

reload == \E len \in PageLengths : Invoke("reload", NoArgs, reload_calls, len)

set_mode ==
    \E mode \in Modes, go \in BOOLEAN :
        Invoke("set_mode", [mode |-> mode, go |-> go], set_mode_calls(mode, go),
               browser.pageLen)

enable_mobile_mode ==
    Invoke("enable_mobile_mode", NoArgs, enable_mobile_mode_calls, browser.pageLen)

\* bounding_rect is what run_js returns; NoRect stands for no value when it does not return
touch_tap ==
    /\ phase = "open"
    /\ \E k \in 0..Len(touch_tap_calls(NoRect)) :
       \E e \in IF k = 0 THEN {NoError} ELSE DriverErrors,
          bounding_rect \in IF k \in {1, 2} THEN {NoRect} ELSE Rects :
        Finish("touch_tap",
               [tab |-> "tab", element |-> "element", bounding_rect |-> bounding_rect],
               touch_tap_calls(bounding_rect), k, e, browser.pageLen)

Next ==
    \/ DrissionPageBase_init
    \/ open_url
    \/ quit
    \/ set_window_size
    \/ set_window_position
    \/ sleep_for_seconds
    \/ open_new_tab
    \/ slow_scroll
    \/ go_back
    \/ reload
    \/ set_mode
    \/ enable_mobile_mode
    \/ touch_tap

Spec == Init /\ [][Next]_vars

----------------------------------------------------------------------------
(* Properties.                                                             *)

SupportedNames == {"chrome", "brave", "opera", "edge"}

\* the positions of the calls on co that set launch argument arg
ArgCalls(arg) ==
    {i \in DOMAIN calls : calls[i].obj = "co" /\ calls[i].op = "set_argument"
                          /\ calls[i].arg.arg = arg}

OpCalls(obj, op) == {i \in DOMAIN calls : calls[i].obj = obj /\ calls[i].op = op}

IsTouch(c, type) ==
    /\ c.obj = "tab" /\ c.op = "run_cdp"
    /\ c.arg.cmd = "Input.dispatchTouchEvent"
    /\ c.arg.params.type = type

\* C1: a supported browser variant (chrome, brave, opera, edge) sets exactly its own
\* fixed executable path and does not raise the unsupported-variant error; any other
\* name makes __init__ raise that error, naming the variant, with no path set.
C1_VariantPath ==
    lastOp = "__init__" =>
        LET n == lastArgs.driver_name
            paths == OpCalls("co", "set_browser_path")
            PathIs(p) == Cardinality(paths) = 1 /\ \A i \in paths : calls[i].arg.path = p
        IN  /\ n = "chrome" => PathIs("usr/bin/google-chrome")
            /\ n = "brave" => PathIs("usr/bin/brave-browser")
            /\ n = "opera" => PathIs("usr/bin/opera")
            /\ n = "edge" => PathIs("usr/bin/microsoft-edge-dev")
            /\ n \in SupportedNames => err \in DriverErrors \cup {NoError}
            /\ n \notin SupportedNames =>
                /\ err = "Exception: Unsupported driver name: " \o n
                /\ phase = "failed"
                /\ paths = {}

C1_Witness ==
    /\ lastOp = "__init__" /\ phase = "failed"
    /\ lastArgs.driver_name = "Chrome"
    /\ err = "Exception: Unsupported driver name: Chrome"

\* C2: slow_scroll, after its two scroll settings, issues scroll.down and wait in
\* turn: every scroll.down has a magnitude in 500..1000, every wait a delay in
\* 0.5 s..2.0 s; when it returns it has issued exactly 5 of each, the last call a
\* wait, wherever the page ends; when a call raises, the calls issued are a prefix
\* of these.
C2_FiveScrollSteps ==
    lastOp = "slow_scroll" =>
        /\ Len(calls) <= 12
        /\ \A i \in DOMAIN calls :
            /\ i = 1 => calls[i].op = "set.scroll.smooth"
            /\ i = 2 => calls[i].op = "set.scroll.wait_complete"
            /\ (i > 2 /\ i % 2 = 1) =>
                /\ calls[i].obj = "page" /\ calls[i].op = "scroll.down"
                /\ calls[i].arg.pixel >= 500 /\ calls[i].arg.pixel <= 1000
            /\ (i > 2 /\ i % 2 = 0) =>
                /\ calls[i].obj = "page" /\ calls[i].op = "wait"
                /\ calls[i].arg.second >= 500 /\ calls[i].arg.second <= 2000
        /\ err = NoError =>
            /\ Cardinality(OpCalls("page", "scroll.down")) = 5
            /\ Cardinality(OpCalls("page", "wait")) = 5
            /\ calls[Len(calls)].op = "wait"

\* the page's end was reached before the last step, and all 5 steps were made
C2_Witness ==
    /\ lastOp = "slow_scroll" /\ err = NoError
    /\ browser.pageLen = 3000 /\ browser.scrollY = browser.pageLen
    /\ lastArgs.scroll_amount = 1000
    /\ Cardinality(OpCalls("page", "scroll.down")) = 5

C4_TapCenter ==
    lastOp = "touch_tap" =>
        \A i \in DOMAIN calls :
            (calls[i].obj = "tab" /\ calls[i].op = "run_cdp") =>
                LET r == lastArgs.bounding_rect
                    tp == calls[i].arg.params.touchPoints[1]
                IN  /\ tp.x2 = 2 * r.x + r.width
                    /\ tp.y2 = 2 * r.y + r.height
                    /\ r = [x |-> 10, y |-> 20, width |-> 100, height |-> 50] =>
                        tp.x2 = 2 * 60 /\ tp.y2 = 2 * 45

C4_Witness ==
    /\ lastOp = "touch_tap"
    /\ lastArgs.bounding_rect = [x |-> 10, y |-> 20, width |-> 100, height |-> 50]
    /\ Len(calls) >= 3
    /\ calls[3].arg.params.touchPoints[1].x2 = 120
    /\ calls[3].arg.params.touchPoints[1].y2 = 90

MobileViewport ==
    [width |-> 411, height |-> 731, deviceScaleFactorMilli |-> 2625, mobile |-> TRUE,
     screenOrientation |-> [angle |-> 0, type |-> "portraitPrimary"]]

\* C5: whatever the emulation state before it, enable_mobile_mode that returns
\* leaves the viewport override width 411, height 731, scale factor 2.625, mobile,
\* orientation angle 0 portraitPrimary; and enable_mobile_mode returning right after
\* an enable_mobile_mode that returned leaves the browser state as it was.
C5_MobileViewport ==
    /\ [][(lastOp' = "enable_mobile_mode" /\ err' = NoError) =>
            browser'.metrics = MobileViewport]_vars
    /\ [][(lastOp = "enable_mobile_mode" /\ err = NoError
           /\ lastOp' = "enable_mobile_mode" /\ err' = NoError) => browser' = browser]_vars

C5_Witness ==
    /\ lastOp = "enable_mobile_mode" /\ err = NoError
    /\ browser.metrics.width = 411 /\ browser.metrics.mobile

\* C6: window_size "full" sets --start-maximized once and no --window-size; any
\* other string sets --window-size once, with that string as its value, and no
\* --start-maximized; so exactly one of the two is set, and the options handed to
\* WebPage are the ones set.
C6_WindowSize ==
    lastOp = "__init__" =>
        LET maxi == ArgCalls("--start-maximized")
            size == ArgCalls("--window-size")
        IN  /\ lastArgs.window_size = "full" => Cardinality(maxi) = 1 /\ size = {}
            /\ lastArgs.window_size # "full" =>
                /\ maxi = {}
                /\ Cardinality(size) = 1
                /\ \A i \in size : calls[i].arg.value = <<lastArgs.window_size>>
            /\ Cardinality(maxi) + Cardinality(size) = 1
            /\ phase = "open" =>
                calls[Len(calls)].arg.chromium_options = SubSeq(calls, 1, Len(calls) - 1)

C6_Witness ==
    /\ lastOp = "__init__" /\ phase = "open"
    /\ lastArgs.window_size = "FULL"
    /\ ArgCalls("--start-maximized") = {}
    /\ ArgCalls("--window-size") # {}

\* C7: debug_port -1 makes no set_address call; any other port makes exactly one,
\* with the address 127.0.0.1:<port>.
C7_DebugAddress ==
    lastOp = "__init__" =>
        LET addr == OpCalls("co", "set_address")
            port == lastArgs.debug_port
            AddressIs(a) == Cardinality(addr) = 1 /\ \A i \in addr : calls[i].arg.address = a
        IN  /\ port = -1 => addr = {}
            /\ port = 0 => AddressIs("127.0.0.1:0")
            /\ port = 9222 => AddressIs("127.0.0.1:9222")
            /\ port = -2 => AddressIs("127.0.0.1:-2")
            /\ port # -1 => Cardinality(addr) = 1

C7_Witness ==
    /\ lastOp = "__init__" /\ phase = "open"
    /\ lastArgs.debug_port = -1
    /\ OpCalls("co", "set_address") = {}

\* C8: enable_mobile_mode issues the viewport override first and the user-agent
\* override second; when the first raises, the second is not issued and the error
\* leaves the method; when the second raises, the error leaves the method and the
\* viewport override stays applied.
C8_TwoOverrides ==
    lastOp = "enable_mobile_mode" =>
        /\ Len(calls) \in {1, 2}
        /\ calls[1].arg.cmd = "Emulation.setDeviceMetricsOverride"
        /\ Len(calls) = 2 => calls[2].arg.cmd = "Emulation.setUserAgentOverride"
        /\ calls[1].raised # NoError => Len(calls) = 1 /\ err = calls[1].raised
        /\ calls[1].raised = NoError =>
            /\ Len(calls) = 2
            /\ err = calls[2].raised
            /\ browser.metrics = calls[1].arg.params
            /\ browser.metrics = MobileViewport

\* the second override raised: the viewport is overridden, the user agent is not
C8_Witness ==
    /\ lastOp = "enable_mobile_mode"
    /\ Len(calls) = 2 /\ calls[2].raised \in DriverErrors /\ err = calls[2].raised
    /\ browser.metrics = MobileViewport
    /\ browser.ua.platform # "Android"

\* the largest number of driver calls a method makes
MostCalls(op) ==
    CASE op = "slow_scroll" -> 12
      [] op = "touch_tap" -> 5
      [] op \in {"open_new_tab", "enable_mobile_mode"} -> 2
      [] OTHER -> 1

\* C9: in every method a call that raises is the last call the method issues, and
\* the error that leaves the method is the error that call raised (none when no
\* call raised); no method issues more calls than its statements make, none twice
\* over; open_url issues one get with url, retry, interval and timeout as given.
C9_NoRetryNoRecovery ==
    /\ \A i \in DOMAIN calls : calls[i].raised # NoError => i = Len(calls) /\ err = calls[i].raised
    /\ (phase # "new" /\ lastOp # "__init__") =>
        /\ Len(calls) >= 1
        /\ err = calls[Len(calls)].raised
        /\ Len(calls) <= MostCalls(lastOp)
        /\ err = NoError => Len(calls) = MostCalls(lastOp)
        /\ lastOp = "open_url" =>
            /\ calls[1].obj = "page" /\ calls[1].op = "get"
            /\ calls[1].arg = lastArgs

\* touch_tap: the wait after touchStart raised, and no touchEnd was dispatched
C9_Witness ==
    /\ lastOp = "touch_tap"
    /\ Len(calls) = 4
    /\ IsTouch(calls[3], "touchStart") /\ calls[3].raised = NoError
    /\ calls[4].raised = "TimeoutError" /\ err = "TimeoutError"

\* C10: __init__ that raises for an unsupported variant has constructed no WebPage
\* and the session holds no handle; a constructed session holds a handle, made by
\* the one WebPage construction of __init__; and no method changes the handle.
C10_OneDriver ==
    /\ [](/\ (lastOp = "__init__" /\ lastArgs.driver_name \notin SupportedNames) =>
                /\ page = NoPage
                /\ OpCalls("WebPage", "__init__") = {}
          /\ phase \in {"new", "failed"} => page = NoPage
          /\ phase \in {"open", "closed"} => page # NoPage
          /\ (lastOp = "__init__" /\ phase = "open") =>
                Cardinality(OpCalls("WebPage", "__init__")) = 1
          /\ lastOp # "__init__" => OpCalls("WebPage", "__init__") = {})
    /\ [][page # NoPage => page' = page]_vars

C10_Witness ==
    /\ lastOp = "__init__" /\ phase = "failed"
    /\ lastArgs.driver_name = "firefox"
    /\ page = NoPage
    /\ OpCalls("WebPage", "__init__") = {}

====
